---- MODULE Spec2Model ----
(***************************************************************************)
(* Tire inventory / price reconciliation (ProductList.jsx,                 *)
(* InventoryService.js).                                                   *)
(*                                                                         *)
(* JS strings are modelled as sequences of one-character strings, so that  *)
(* trim(), includes() and the regular-expression replaces act on           *)
(* characters.  JS numbers that an edit can turn into NaN or '' are tagged *)
(* values (Num, NaN, EmptyString); all other numbers are integers.         *)
(***************************************************************************)
EXTENDS Integers, Sequences, FiniteSets, Bags, TLC

VARIABLES
    variant,      \* which version of the component runs: "sheetFirst" | "stockFirst"
    products,     \* useState: the master product list
    loading,      \* useState: loading flag
    filter,       \* useState: [brand, size]
    sortConfig,   \* useState: [key, direction]
    calls,        \* loadData invocations that are awaiting their fetches
    debounce,     \* stock-first version: the 500 ms re-fetch timer is pending
    sheetData,    \* ledger rows consumed by the latest merge
    productData,  \* stock records consumed by the latest merge
    policy,       \* which version of parseShopData runs: "retainAll" | "excludeEmpty"
    responseBody, \* the document handed to parseShopData
    parsedData,   \* what parseShopData returned for it
    serviceProducts, \* InventoryService.products
    inventory,    \* InventoryService.inventory
    orders,       \* how many times placeOrder has been called
    lastOrder,    \* the latest placeOrder call and how it ended
    lastSearch,   \* the criteria of the latest search call
    searchResult  \* what the latest search returned

uiVars == <<variant, products, loading, filter, sortConfig, calls, debounce, sheetData, productData>>
parseVars == <<policy, responseBody, parsedData>>
shopVars == <<serviceProducts, inventory, orders, lastOrder, lastSearch, searchResult>>
svcVars == <<parseVars, shopVars>>
vars == <<uiVars, svcVars>>

----------------------------------------------------------------------------
(* Bounds *)

MaxLedger == 2      \* ledger rows per fetch
MaxStock == 2       \* stock records per fetch

----------------------------------------------------------------------------
(* JS values *)

\* undefined, where a string or list is expected (no real string holds this token)
Undefined == <<"undefined">>

Num(n) == [t |-> "number", v |-> n]
NaN == [t |-> "NaN", v |-> 0]
EmptyString == [t |-> "string", v |-> 0]

\* obj.field, undefined when the object has no such property
Get(obj, field) == IF field \in DOMAIN obj THEN obj[field] ELSE Undefined

\* truthiness of a string-or-undefined value
Truthy(s) == s # Undefined /\ s # <<>>

\* String(x || '')
StringOrEmpty(x) == IF Truthy(x) THEN x ELSE <<>>

IsSpace(c) == c = " "

RECURSIVE trimStart(_)
trimStart(s) ==
    IF s # <<>> /\ IsSpace(Head(s)) THEN trimStart(Tail(s)) ELSE s

RECURSIVE trimEnd(_)
trimEnd(s) ==
    IF s # <<>> /\ IsSpace(s[Len(s)]) THEN trimEnd(SubSeq(s, 1, Len(s) - 1)) ELSE s

\* String.prototype.trim
trim(s) == trimEnd(trimStart(s))

\* String.prototype.includes
includes(s, t) ==
    \E i \in 0..(Len(s) - Len(t)) : SubSeq(s, i + 1, i + Len(t)) = t

Digits == {"0", "1", "2", "3", "4", "5", "6", "7", "8", "9"}

\* s.replace(/[^0-9]/g, '')
stripNonDigits(s) == SelectSeq(s, LAMBDA c : c \in Digits)

DigitChars == <<"0", "1", "2", "3", "4", "5", "6", "7", "8", "9">>

RECURSIVE digitsValue(_, _)
\* the natural number a string of decimal digits denotes
digitsValue(s, acc) ==
    IF s = <<>> THEN acc
    ELSE digitsValue(Tail(s), 10 * acc + (CHOOSE d \in 0..9 : DigitChars[d + 1] = Head(s)))

AllDigits(s) == \A i \in 1..Len(s) : s[i] \in Digits

\* utils/formatters normalizeSize: the bare-digits form of a size string
normalizeSize(s) == stripNonDigits(s)

Min(S) == CHOOSE x \in S : \A y \in S : x <= y

\* the discontinuation marker
sDiscontinued == <<"단", "종">>

SeqsUpTo(S, n) == UNION {[1..k -> S] : k \in 0..n}

----------------------------------------------------------------------------
(* parseShopData: deduplication (the rest of the parser follows below) *)

\* `${item.brand}-${item.model}-${item.size}-${item.partNo}`
dedupKey(item) ==
    item.brand \o <<"-">> \o item.model \o <<"-">> \o item.size \o <<"-">> \o item.partNo

RECURSIVE uniqueItemsFrom(_, _, _)
uniqueItemsFrom(parsedItems, seen, acc) ==
    IF parsedItems = <<>> THEN acc
    ELSE LET item == Head(parsedItems)
             key == dedupKey(item)
         IN IF key \in seen
            THEN uniqueItemsFrom(Tail(parsedItems), seen, acc)
            ELSE uniqueItemsFrom(Tail(parsedItems), seen \cup {key}, Append(acc, item))

\* dedup in which the last occurrence of a key wins
uniqueItems_KeepLast(parsedItems) ==
    LET n == Len(parsedItems)
        backwards == uniqueItemsFrom([i \in 1..n |-> parsedItems[n + 1 - i]], {}, <<>>)
    IN [i \in 1..Len(backwards) |-> backwards[Len(backwards) + 1 - i]]

uniqueItems(parsedItems) == uniqueItemsFrom(parsedItems, {}, <<>>)

----------------------------------------------------------------------------
(* loadData: the merge of ledger rows and stock records *)

\* the predicate of productData.find in findInventoryMatch
matchesSheetCode(p, sCode) ==
    \/ trim(StringOrEmpty(Get(p, "partNo"))) = sCode
    \/ trim(StringOrEmpty(Get(p, "itId"))) = sCode
    \/ trim(StringOrEmpty(Get(p, "stId"))) = sCode

\* index in stock of the record Array.prototype.find returns, 0 for undefined
findInventoryMatch(stock, sheetCode) ==
    LET sCode == trim(StringOrEmpty(sheetCode))
        hits == {i \in 1..Len(stock) : matchesSheetCode(stock[i], sCode)}
    IN IF hits = {} THEN 0 ELSE Min(hits)

\* a size filter that asks for the same normalized size, not for containment
passesSheetFilter_SameSize(d, searchSizeNorm) ==
    normalizeSize(d.size) = searchSizeNorm /\ d.factoryPrice > 0

\* the size-and-price filter on the ledger rows
passesSheetFilter(d, searchSizeNorm) ==
    includes(normalizeSize(d.size), searchSizeNorm) /\ d.factoryPrice > 0

filteredSheetEntries(sheet, size) ==
    SelectSeq(sheet, LAMBDA d : passesSheetFilter(d, normalizeSize(size)))

\* mutant: shopMatch?.size || s.size, an empty stock size falls back to the ledger's
mergedSize_PreferNonEmpty(s, matched, shopMatch) ==
    IF matched /\ Truthy(Get(shopMatch, "size")) THEN shopMatch.size ELSE s.size

\* shopMatch ? shopMatch.size : s.size
mergedSize(s, matched, shopMatch) ==
    IF matched THEN Get(shopMatch, "size") ELSE s.size

\* s.brand || shopMatch?.brand   (and the same for model)
ledgerFirst(ledgerValue, matched, shopMatch, field) ==
    IF Truthy(ledgerValue) THEN ledgerValue
    ELSE IF matched THEN Get(shopMatch, field) ELSE Undefined

\* shopMatch ? shopMatch.totalStock : 0   (and the same for supplyPrice)
stockOrZero(matched, shopMatch, field) ==
    IF matched THEN shopMatch[field] ELSE 0

\* mutant: s.dotList without the || [] default
dotListOrEmpty_Raw(s) == Get(s, "dotList")

\* s.dotList || []
dotListOrEmpty(s) ==
    IF Get(s, "dotList") = Undefined THEN <<>> ELSE s.dotList

\* the record built for one ledger row
mergeSheetEntry(s, stock) ==
    LET i == findInventoryMatch(stock, s.code)
        matched == i # 0
        shopMatch == IF matched THEN stock[i] ELSE [none |-> TRUE]
    IN [brand |-> ledgerFirst(s.brand, matched, shopMatch, "brand"),
        model |-> ledgerFirst(s.model, matched, shopMatch, "model"),
        size |-> mergedSize(s, matched, shopMatch),
        partNo |-> s.code,
        factoryPrice |-> Num(s.factoryPrice),
        dotList |-> dotListOrEmpty(s),
        totalStock |-> stockOrZero(matched, shopMatch, "totalStock"),
        supplyPrice |-> stockOrZero(matched, shopMatch, "supplyPrice"),
        discountRate |-> Num(0),
        internalCode |-> s.code]

\* mutant: >= 0 in place of > 0
hasFactoryPrice_NonNegative(p) == p.factoryPrice.t = "number" /\ p.factoryPrice.v >= 0

\* the price gate applied to the merged records
hasFactoryPrice(p) == p.factoryPrice.t = "number" /\ p.factoryPrice.v > 0

RECURSIVE insertByStock(_, _)
insertByStock(sorted, p) ==
    IF sorted = <<>> THEN <<p>>
    ELSE IF Head(sorted).totalStock >= p.totalStock
         THEN <<Head(sorted)>> \o insertByStock(Tail(sorted), p)
         ELSE <<p>> \o sorted

RECURSIVE sortByStockDesc(_)
\* [...mergedProducts].sort((a, b) => (b.totalStock || 0) - (a.totalStock || 0)), stable
sortByStockDesc(list) ==
    IF list = <<>> THEN <<>>
    ELSE insertByStock(sortByStockDesc(SubSeq(list, 1, Len(list) - 1)), list[Len(list)])

\* mutant: an inner join, ledger rows without a stock match are dropped
mergeSheetFirst_InnerJoin(sheet, stock, size) ==
    LET entries == SelectSeq(filteredSheetEntries(sheet, size),
                             LAMBDA s : findInventoryMatch(stock, s.code) # 0)
        merged == [i \in 1..Len(entries) |-> mergeSheetEntry(entries[i], stock)]
    IN sortByStockDesc(SelectSeq(merged, hasFactoryPrice))

\* sheet-first loadData: filter, map, filter, sort
mergeSheetFirst(sheet, stock, size) ==
    LET entries == filteredSheetEntries(sheet, size)
        merged == [i \in 1..Len(entries) |-> mergeSheetEntry(entries[i], stock)]
    IN sortByStockDesc(SelectSeq(merged, hasFactoryPrice))

\* the predicate of sheetData.find in the stock-first merge
matchesPartNo(p, d) ==
    /\ Truthy(Get(p, "partNo"))
    /\ Truthy(Get(d, "code"))
    /\ trim(p.partNo) = trim(d.code)

\* index in sheet of the row sheetData.find returns, 0 for undefined
findSheetMatch(sheet, p) ==
    LET hits == {i \in 1..Len(sheet) : matchesPartNo(p, sheet[i])}
    IN IF hits = {} THEN 0 ELSE Min(hits)

\* the record built for one stock record
mergeStockEntry(p, sheet) ==
    LET i == findSheetMatch(sheet, p)
        finalFactoryPrice == IF i # 0 /\ sheet[i].factoryPrice > 0
                             THEN sheet[i].factoryPrice ELSE 0
        dotList == IF i # 0 THEN dotListOrEmpty(sheet[i]) ELSE <<>>
    IN [f \in DOMAIN p \cup {"factoryPrice", "dotList"} |->
            IF f = "factoryPrice" THEN Num(finalFactoryPrice)
            ELSE IF f = "dotList" THEN dotList
            ELSE p[f]]

\* stock-first loadData: map, filter
mergeStockFirst(sheet, stock) ==
    LET merged == [i \in 1..Len(stock) |-> mergeStockEntry(stock[i], sheet)]
    IN SelectSeq(merged, hasFactoryPrice)

----------------------------------------------------------------------------
(* JS number arithmetic: IEEE-754 doubles, round to nearest, ties to even.   *)
(* A magnitude is a natural number held as its bits, least significant       *)
(* first, counting units of 2^-FractionBits.                                 *)

DoublePrecision == 53     \* significand bits of a double
FractionBits == 64        \* binary places kept below 1; dr/100 needs at most 59

RECURSIVE natBits(_)
natBits(n) == IF n = 0 THEN <<>> ELSE <<n % 2>> \o natBits(n \div 2)

RECURSIVE bitsNat(_)
bitsNat(b) == IF b = <<>> THEN 0 ELSE Head(b) + 2 * bitsNat(Tail(b))

RECURSIVE stripZeros(_)
\* drop the leading (most significant) zero bits
stripZeros(b) ==
    IF b # <<>> /\ b[Len(b)] = 0 THEN stripZeros(SubSeq(b, 1, Len(b) - 1)) ELSE b

zeros(k) == [i \in 1..k |-> 0]

bit(b, i) == IF i >= 1 /\ i <= Len(b) THEN b[i] ELSE 0

RECURSIVE addOne(_)
addOne(b) ==
    IF b = <<>> THEN <<1>>
    ELSE IF Head(b) = 0 THEN <<1>> \o Tail(b)
    ELSE <<0>> \o addOne(Tail(b))

RECURSIVE subBits(_, _, _)
\* a - b - borrow for a >= b + borrow, bit by bit
subBits(a, b, borrow) ==
    IF a = <<>> THEN <<>>
    ELSE LET d == Head(a) - bit(b, 1) - borrow
             rest == IF b = <<>> THEN <<>> ELSE Tail(b)
         IN IF d >= 0 THEN <<d>> \o subBits(Tail(a), rest, 0)
            ELSE <<d + 2>> \o subBits(Tail(a), rest, 1)

RECURSIVE lessFrom(_, _, _)
\* a < b, for a and b of the same length, comparing from bit i down
lessFrom(a, b, i) ==
    IF i = 0 THEN FALSE
    ELSE IF a[i] # b[i] THEN a[i] < b[i]
    ELSE lessFrom(a, b, i - 1)

lessBits(a, b) ==
    LET x == stripZeros(a)
        y == stripZeros(b)
    IN IF Len(x) # Len(y) THEN Len(x) < Len(y) ELSE lessFrom(x, y, Len(x))

RECURSIVE mulSmall(_, _, _)
\* b * n + carry for a small natural n
mulSmall(b, n, carry) ==
    IF b = <<>> THEN natBits(carry)
    ELSE LET t == Head(b) * n + carry
         IN <<t % 2>> \o mulSmall(Tail(b), n, t \div 2)

\* round a magnitude to DoublePrecision significant bits, nearest, ties to even
roundDouble(b) ==
    LET x == stripZeros(b)
        drop == Len(x) - DoublePrecision
    IN IF drop <= 0 THEN x
       ELSE LET kept == SubSeq(x, drop + 1, Len(x))
                half == x[drop] = 1
                sticky == \E i \in 1..(drop - 1) : x[i] = 1
                up == half /\ (sticky \/ kept[1] = 1)
            IN zeros(drop) \o (IF up THEN addOne(kept) ELSE kept)

RECURSIVE fractionBits(_, _, _)
\* the first k binary places of r / d (r < d), most significant first, then the remainder
fractionBits(r, d, k) ==
    IF k = 0 THEN <<r>>
    ELSE LET r2 == 2 * r
         IN IF r2 >= d THEN <<1>> \o fractionBits(r2 - d, d, k - 1)
            ELSE <<0>> \o fractionBits(r2, d, k - 1)

reverse(s) == [i \in 1..Len(s) |-> s[Len(s) + 1 - i]]

\* the double nearest to n / d, for naturals n and d > 0
divDouble(n, d) ==
    LET fr == fractionBits(n % d, d, FractionBits)
        places == reverse(SubSeq(fr, 1, FractionBits))
        inexact == fr[FractionBits + 1] # 0
        low == IF inexact THEN <<1>> \o Tail(places) ELSE places
    IN roundDouble(low \o natBits(n \div d))

oneBits == zeros(FractionBits) \o <<1>>

RECURSIVE addBits(_, _, _)
addBits(a, b, carry) ==
    IF a = <<>> /\ b = <<>> THEN natBits(carry)
    ELSE LET s == bit(a, 1) + bit(b, 1) + carry
         IN <<s % 2>> \o addBits(IF a = <<>> THEN <<>> ELSE Tail(a),
                                  IF b = <<>> THEN <<>> ELSE Tail(b), s \div 2)

\* a signed double is [neg, mag]
\* 1 - q for a signed double q
oneMinus(q) ==
    IF q.neg THEN [neg |-> FALSE, mag |-> roundDouble(addBits(oneBits, q.mag, 0))]
    ELSE IF lessBits(oneBits, q.mag)
    THEN [neg |-> TRUE, mag |-> roundDouble(subBits(q.mag, oneBits, 0))]
    ELSE [neg |-> FALSE, mag |-> roundDouble(subBits(oneBits, q.mag, 0))]

\* n * y for an integer n and a signed double y
timesInt(n, y) ==
    [neg |-> (n < 0) # y.neg,
     mag |-> roundDouble(mulSmall(y.mag, IF n < 0 THEN -n ELSE n, 0))]

\* Math.floor of a signed double, as an integer
floorDouble(z) ==
    LET m == stripZeros(z.mag)
        whole == bitsNat(SubSeq(m, FractionBits + 1, Len(m)))
        fraction == \E i \in 1..FractionBits : bit(m, i) = 1
    IN IF ~z.neg THEN whole
       ELSE IF fraction THEN -(whole + 1) ELSE -whole

\* discountRate / 100 for an integer discountRate
rateFraction(discountRate) ==
    [neg |-> discountRate < 0,
     mag |-> divDouble(IF discountRate < 0 THEN -discountRate ELSE discountRate, 100)]

\* Math.floor(factoryPrice * (1 - discountRate / 100)) for integers
floorDiscount(factoryPrice, discountRate) ==
    floorDouble(timesInt(factoryPrice, oneMinus(rateFraction(discountRate))))

----------------------------------------------------------------------------
(* parseShopData.  A document is the sequence of its <tr> elements, each   *)
(* with the class of its table, the section it sits in, and its <td>       *)
(* cells; a cell has its text content and, when it holds one, the value of *)
(* its text input.                                                         *)

MaxRows == 3        \* <tr> elements per document

\* a TypeError thrown while a row is read (no real string holds this token)
Thrown == <<"TypeError">>

\* doc.querySelectorAll('table.stock-list_table tbody tr')
isStockRow(tr) == tr.table = "stock-list_table" /\ tr.section = "tbody"

stockRows(doc) == SelectSeq(doc, isStockRow)

\* getText without the guard: reading textContent of a missing cell throws
getText_Unguarded(cols, k) ==
    IF k + 1 \in 1..Len(cols) THEN trim(cols[k + 1].text) ELSE Thrown

\* getText(cols[k]): col ? col.textContent.trim() : ''
getText(cols, k) ==
    IF k + 1 \in 1..Len(cols) THEN trim(cols[k + 1].text) ELSE <<>>

\* getValue(cols[k]): the text input's value when the cell has one, else its text
getValue(cols, k) ==
    IF k + 1 \in 1..Len(cols)
    THEN IF "input" \in DOMAIN cols[k + 1] THEN trim(cols[k + 1].input)
         ELSE trim(cols[k + 1].text)
    ELSE <<>>

\* Number(text.replace(/[^0-9]/g, '')) || 0
numberOrZero(text) == digitsValue(stripNonDigits(text), 0)

\* the callback of rows.map: [kind |-> "null" | "throw" | "item", item]
parseRow(pol, cols) ==
    IF Len(cols) < 5 THEN [kind |-> "null"]
    ELSE LET rawBrand == getText(cols, 1)
             rawModel == getText(cols, 2)
             rawPartNo == getText(cols, 3)
             rawSize == getText(cols, 4)
             lastColText == getText(cols, Len(cols) - 1)
             secondLastColText == getText(cols, Len(cols) - 2)
             uniqueCode == getValue(cols, 5)
             stockText == getText(cols, 9)
             priceText == getValue(cols, 10)
             base == [brand |-> rawBrand, model |-> rawModel, size |-> rawSize,
                      partNo |-> uniqueCode, supplyPrice |-> numberOrZero(priceText),
                      factoryPrice |-> Num(0), totalStock |-> numberOrZero(stockText),
                      discountRate |-> Num(0), type |-> <<>>]
         IN IF Thrown \in {rawBrand, rawModel, rawPartNo, rawSize, uniqueCode, stockText, priceText}
            THEN [kind |-> "throw"]
            ELSE IF pol = "retainAll"
            THEN IF Thrown \in {lastColText, secondLastColText} THEN [kind |-> "throw"]
                 ELSE IF includes(lastColText, sDiscontinued)
                         \/ includes(secondLastColText, sDiscontinued)
                 THEN [kind |-> "null"]
                 ELSE [kind |-> "item",
                       item |-> [f \in DOMAIN base \cup {"internalCode"} |->
                                    IF f = "internalCode" THEN rawPartNo ELSE base[f]]]
            ELSE IF uniqueCode = <<>> \/ uniqueCode = <<"0">> THEN [kind |-> "null"]
                 ELSE [kind |-> "item", item |-> base]

\* rows.map(...): one result per selected row
mappedRows(pol, doc) ==
    [i \in 1..Len(stockRows(doc)) |-> parseRow(pol, stockRows(doc)[i].cols)]

\* rows.map(...).filter(item => item !== null)
parsedItems(pol, doc) ==
    LET kept == SelectSeq(mappedRows(pol, doc), LAMBDA r : r.kind = "item")
    IN [i \in 1..Len(kept) |-> kept[i].item]

\* parseShopData(responseBody): [threw, items]
parseShopData(pol, doc) ==
    LET rows == stockRows(doc)
        mapped == mappedRows(pol, doc)
    IN IF rows = <<>> THEN [threw |-> FALSE, items |-> <<>>]
       ELSE IF \E i \in 1..Len(mapped) : mapped[i].kind = "throw"
       THEN [threw |-> TRUE, items |-> <<>>]
       ELSE [threw |-> FALSE, items |-> uniqueItems(parsedItems(pol, doc))]

NotParsed == [done |-> FALSE, threw |-> FALSE, items |-> <<>>]

\* no placeOrder call yet
NoOrder == [productId |-> 0, qty |-> 0, source |-> "none", outcome |-> "none", alert |-> FALSE]

\* no search call yet
NoSearch == [none |-> TRUE]

\* the mock database before init(): nothing loaded, nothing ordered or searched
ShopIdle ==
    /\ serviceProducts = <<>>
    /\ inventory = <<>>
    /\ orders = 0
    /\ lastOrder = NoOrder
    /\ lastSearch = NoSearch
    /\ searchResult = <<>>

\* the service while the component is studied on its own
ServiceIdle ==
    /\ policy = "retainAll"
    /\ responseBody = <<>>
    /\ parsedData = NotParsed
    /\ ShopIdle

----------------------------------------------------------------------------
(* Input data: ledger rows (fetchSheetData) and stock records (fetchShopItems) *)

sA == <<"A">>
sAB == <<"A", "B">>
sLowerA == <<"a">>
sPaddedA == <<" ", "A", " ">>
sBlank == <<" ">>
sHankook == <<"H">>
sKumho == <<"K">>
sModelM == <<"M">>
sModelN == <<"N">>
sSize25 == <<"2", "5">>
sSize25R == <<"2", "/", "5", "R">>
sSize25R4 == <<"2", "/", "5", "R", "4">>
sSize35 == <<"3", "5">>
sQuery25 == <<"2", "/", "5">>
sQueryR == <<"R">>
sDot == <<"2", "5", "2", "4">>

\* a ledger row as fetchSheetData yields it
LedgerRow(brand, model, size, code, factoryPrice) ==
    [brand |-> brand, model |-> model, size |-> size, code |-> code,
     factoryPrice |-> factoryPrice]

WithDots(row, dots) ==
    [f \in DOMAIN row \cup {"dotList"} |-> IF f = "dotList" THEN dots ELSE row[f]]

LedgerRows ==
    { WithDots(LedgerRow(sHankook, sModelM, sSize25R, sA, 5), <<sDot>>),
      LedgerRow(<<>>, <<>>, sSize25, sPaddedA, 10),
      LedgerRow(sHankook, sModelM, sSize25R4, sLowerA, 5),
      LedgerRow(<<>>, sModelM, sSize25, <<>>, 7),
      WithDots(LedgerRow(sHankook, <<>>, sSize25, sAB, 0), <<sDot>>),
      LedgerRow(sHankook, sModelM, sSize35, sA, 5),
      LedgerRow(sHankook, sModelM, sSize25R, sBlank, 5),
      LedgerRow(sKumho, sModelN, sSize25, sAB, -1) }

\* a stock record as parseShopData returns it
StockRecord(brand, model, size, partNo, supplyPrice, totalStock) ==
    [brand |-> brand, model |-> model, size |-> size, partNo |-> partNo,
     internalCode |-> <<>>, supplyPrice |-> supplyPrice, factoryPrice |-> Num(0),
     totalStock |-> totalStock, discountRate |-> Num(0), type |-> <<>>]

StockRecords ==
    { StockRecord(sKumho, sModelN, sSize25R4, sA, 4, 3),
      StockRecord(sKumho, sModelN, <<>>, sLowerA, 2, 0),
      StockRecord(<<>>, <<>>, sSize25, <<>>, 1, 5),
      StockRecord(sKumho, sModelN, sSize25, sAB, 6, 1),
      StockRecord(sHankook, sModelM, sSize35, sA, 9, 2),
      StockRecord(sHankook, sModelN, sSize25R, <<>>, 8, 4) }

\* fetchShopItems hands over what parseShopData returned: deduplicated records
StockLists == {s \in SeqsUpTo(StockRecords, MaxStock) : uniqueItems(s) = s}

SheetLists == SeqsUpTo(LedgerRows, MaxLedger)

MergeSizes == {sQuery25, sQueryR}

Variants == {"sheetFirst", "stockFirst"}

InitialSort(v) ==
    IF v = "sheetFirst" THEN [key |-> "totalStock", direction |-> "desc"]
    ELSE [key |-> "none", direction |-> "asc"]

----------------------------------------------------------------------------
(* One reconcile pass, from the point where both fetches have resolved *)

InitMerge ==
    /\ variant \in Variants
    /\ products = <<>>
    /\ loading = TRUE
    /\ filter \in [brand : {"All"}, size : MergeSizes]
    /\ sortConfig = InitialSort(variant)
    /\ calls = <<>>
    /\ debounce = FALSE
    /\ sheetData \in SheetLists
    /\ productData \in StockLists
    /\ ServiceIdle

\* loadData (sheet-first) from the merge to finally
ReconcileSheetFirst ==
    /\ variant = "sheetFirst"
    /\ loading
    /\ products' = mergeSheetFirst(sheetData, productData, filter.size)
    /\ sortConfig' = [key |-> "totalStock", direction |-> "desc"]
    /\ loading' = FALSE
    /\ UNCHANGED <<variant, filter, calls, debounce, sheetData, productData>>
    /\ UNCHANGED svcVars

\* loadData (stock-first) from the merge to finally
ReconcileStockFirst ==
    /\ variant = "stockFirst"
    /\ loading
    /\ products' = mergeStockFirst(sheetData, productData)
    /\ loading' = FALSE
    /\ UNCHANGED <<variant, filter, sortConfig, calls, debounce, sheetData, productData>>
    /\ UNCHANGED svcVars

NextMerge == ReconcileSheetFirst \/ ReconcileStockFirst

SpecMerge == InitMerge /\ [][NextMerge]_vars

----------------------------------------------------------------------------
(* The product list component: searches, sorting, price and discount edits *)

MaxInFlight == 1    \* loadData invocations awaiting their fetches at one time

\* truthiness of a number-or-'' value
Falsy(v) == v.t # "number" \/ v.v = 0

\* Number(s) for a string of digits and '-' signs
toNumber(s) ==
    IF s = <<>> THEN Num(0)
    ELSE IF AllDigits(s) THEN Num(digitsValue(s, 0))
    ELSE IF Head(s) = "-" /\ Len(s) > 1 /\ AllDigits(Tail(s)) THEN Num(-digitsValue(Tail(s), 0))
    ELSE NaN

\* value.replace(/[^0-9.-]+/g, "")
stripNonNumeric(value) == SelectSeq(value, LAMBDA c : c \in Digits \cup {".", "-"})

\* handlePriceUpdate: value cleaning
cleanValue(v, value) ==
    IF v = "sheetFirst" /\ value = <<>> THEN EmptyString
    ELSE toNumber(stripNonNumeric(value))

\* handlePriceUpdate that writes the value into every product of the list
handlePriceUpdate_EveryRow(v, list, index, field, value) ==
    [j \in 1..Len(list) |-> [list[j] EXCEPT ![field] = cleanValue(v, value)]]

\* handlePriceUpdate(index, field, value): index is the product object, here its position
handlePriceUpdate(v, list, index, field, value) ==
    [list EXCEPT ![index][field] = cleanValue(v, value)]

\* what the discount input's onChange hands to handlePriceUpdate
discountInputValue(v, typed) ==
    IF v = "sheetFirst" THEN stripNonDigits(typed) ELSE typed

\* the brand select stays at 'All'
matchBrand(p, f) == f.brand = "All"

\* the predicate of products.filter in filteredProducts
isDisplayed(v, p, f) ==
    IF v = "sheetFirst"
    THEN /\ ~(Truthy(p.brand) /\ includes(p.brand, sDiscontinued))
         /\ ~(Truthy(p.model) /\ includes(p.model, sDiscontinued))
         /\ matchBrand(p, f)
    ELSE /\ Truthy(p.partNo) /\ p.partNo # <<"0">>
         /\ ~Falsy(p.factoryPrice)
         /\ matchBrand(p, f)

\* filteredProducts, as the positions in products of the rows on display
filteredProducts == {i \in 1..Len(products) : isDisplayed(variant, products[i], filter)}

\* x * (1 - rate / 100), floored, for number-or-'' operands already defaulted
discountOf(price, rate) ==
    IF price.t = "NaN" \/ rate.t = "NaN" THEN NaN
    ELSE Num(floorDiscount(IF price.t = "string" THEN 0 ELSE price.v,
                           IF rate.t = "string" THEN 0 ELSE rate.v))

orZero(v) == IF Falsy(v) THEN Num(0) ELSE v

\* the table row: Math.floor((p.factoryPrice ?? 0) * (1 - (p.discountRate || 0) / 100))
discountedPrice(p) == discountOf(p.factoryPrice, orZero(p.discountRate))

\* the table row of the second version:
\* Math.floor((Number(factoryPrice) || 0) * (1 - (Number(discountRate) || 0) / 100))
discountedPriceNumber(p) == discountOf(orZero(p.factoryPrice), orZero(p.discountRate))

\* generateShareText and the cart subtotal:
\* Math.floor((p.factoryPrice || 0) * (1 - (p.discountRate || 0) / 100))
sharePrice(p) == discountOf(orZero(p.factoryPrice), orZero(p.discountRate))

\* the sample inputs of the component
sheetRowA == WithDots(LedgerRow(sHankook, sModelM, sSize25R, sA, 100000), <<sDot>>)
sheetRowPadded == LedgerRow(<<>>, <<>>, sSize25, sPaddedA, 2150)
stockA == StockRecord(sKumho, sModelN, sSize25R4, sA, 4, 3)
stockLowerA == StockRecord(sKumho, sModelN, <<>>, sLowerA, 2, 0)

sCodeP == <<"P">>
sZero == <<"0">>
sStock3 == <<" ", "3", "E", "A">>
sPrice4 == <<"4", ",", "0">>
sOnSale == <<"O", "K">>

Cell(text) == [text |-> text]
InputCell(text, value) == [text |-> text, input |-> value]

\* the twelve cells of a stock-table row
StockCols(brand, model, partNo, size, uniqueCode, stock, price, status) ==
    <<Cell(<<>>), Cell(brand), Cell(model), Cell(partNo), Cell(size),
      InputCell(<<>>, uniqueCode), Cell(<<>>), Cell(<<>>), Cell(<<>>),
      Cell(stock), InputCell(<<>>, price), Cell(status)>>

Tr(table, section, cols) == [table |-> table, section |-> section, cols |-> cols]

StockTr(cols) == Tr("stock-list_table", "tbody", cols)

\* the stock page that parseShopData turns into <<stockLowerA, stockA>>
stockPageRows ==
    << StockTr(StockCols(sKumho, sModelN, <<>>, <<>>, sLowerA, <<"0">>, <<"2">>, sOnSale)),
       StockTr(StockCols(sKumho, sModelN, <<>>, sSize25R4, sA, <<"3">>, <<"4">>, sOnSale)) >>

\* a response body: the substrings fetchShopItems looks for, and its rows
ResponseText(markers, doc) == [markers |-> markers, doc |-> doc]

stockPage == ResponseText({"<!DOCTYPE html>", "<table"}, stockPageRows)
stockPageWithLoginLink == ResponseText({"<!DOCTYPE html>", "<table", "login"}, stockPageRows)
loginPage == ResponseText({"<!DOCTYPE html>", "login"}, <<>>)
errorPage == ResponseText({"<!DOCTYPE html>"}, <<>>)
emptyBody == ResponseText({}, <<>>)

ResponseTexts == {stockPage, stockPageWithLoginLink, loginPage, errorPage, emptyBody}

\* the Mock Unique Code: THH and seven random digits
sMockCode == <<"T", "H", "H", "1", "0", "0", "0", "0", "0", "0">>

RECURSIVE sumStockQty(_)
sumStockQty(records) ==
    IF records = <<>> THEN 0
    ELSE records[1].stockQty + sumStockQty(Tail(records))

\* generateMockShopData(): one record per product of the mock database
generateMockShopData(prods, inv) ==
    [i \in 1..Len(prods) |->
        LET p == prods[i]
            productInv == SelectSeq(inv, LAMBDA r : r.productId = p.id)
        IN [brand |-> p.brand, model |-> p.model, size |-> p.size, partNo |-> sMockCode,
            type |-> p.type, totalStock |-> sumStockQty(productInv), apiPrice |-> 0,
            factoryPrice |-> Num(0), discountRate |-> Num(0)]]

\* the login-page test of fetchShopItems; the marker "login" stands for
\* either spelling of the word the code looks for
isLoginPage(text) ==
    \/ "login" \in text.markers
    \/ "<!DOCTYPE html>" \in text.markers /\ "<table" \notin text.markers

\* fetchShopItems once response.text() has resolved
fetchedItems(pol, prods, inv, text) ==
    IF isLoginPage(text) THEN generateMockShopData(prods, inv)
    ELSE IF parseShopData(pol, text.doc).threw THEN <<>>
    ELSE parseShopData(pol, text.doc).items

UiSheets == {<<>>, <<sheetRowA, sheetRowPadded>>}
UiSizes == {<<>>, sQuery25}
TypedPrices == {<<>>, <<"-", "5">>}
TypedDiscounts == {<<"8", "0">>, <<"1", "5", "0">>}
SortKeys == {"totalStock", "factoryPrice"}

\* one loadData invocation awaiting Promise.all: the query it was started with,
\* what its two fetches have delivered, whether the stock response has arrived
\* (its body still to be read), and whether it is the most recently started
NewCall(size) ==
    [size |-> size, sheetDone |-> FALSE, sheet |-> <<>>, stockDone |-> FALSE, stock |-> <<>>,
     headers |-> FALSE, latest |-> TRUE]

RemoveAt(s, i) == SubSeq(s, 1, i - 1) \o SubSeq(s, i + 1, Len(s))

\* the state after the first render and its effects
Init ==
    /\ variant \in Variants
    /\ products = <<>>
    /\ filter = [brand |-> "All", size |-> <<>>]
    /\ sortConfig = InitialSort(variant)
    /\ sheetData = <<>>
    /\ productData = <<>>
    /\ IF variant = "sheetFirst"
       THEN loading = FALSE /\ calls = <<>> /\ debounce = FALSE
       ELSE loading = TRUE /\ calls = <<NewCall(<<>>)>> /\ debounce = TRUE
    /\ ServiceIdle

\* the size input's onChange, and the effect on filter.size
SetSize(v) ==
    /\ v # filter.size
    /\ filter' = [filter EXCEPT !.size = v]
    /\ IF variant = "sheetFirst"
       THEN /\ IF trim(v) = <<>>
               THEN products' = <<>> /\ loading' = FALSE
               ELSE UNCHANGED <<products, loading>>
            /\ UNCHANGED debounce
       ELSE debounce' = TRUE /\ UNCHANGED <<products, loading>>
    /\ UNCHANGED <<variant, sortConfig, calls, sheetData, productData>>
    /\ UNCHANGED svcVars

\* loadData up to await Promise.all
StartLoad(cap) ==
    /\ Len(calls) < cap
    /\ loading' = TRUE
    /\ calls' = Append([i \in 1..Len(calls) |-> [calls[i] EXCEPT !.latest = FALSE]],
                       NewCall(filter.size))

\* Enter in the size input or the search button; the refresh button
LoadDataStart(cap) ==
    /\ variant = "sheetFirst" => trim(filter.size) # <<>>
    /\ StartLoad(cap)
    /\ UNCHANGED <<variant, products, filter, sortConfig, debounce, sheetData, productData>>
    /\ UNCHANGED svcVars

\* the 500 ms timer of the stock-first version fires
DebounceFire(cap) ==
    /\ variant = "stockFirst"
    /\ debounce
    /\ StartLoad(cap)
    /\ debounce' = FALSE
    /\ UNCHANGED <<variant, products, filter, sortConfig, sheetData, productData>>
    /\ UNCHANGED svcVars

\* googleSheetService.fetchSheetData() resolves
SheetResolve(i, rows) ==
    /\ i \in 1..Len(calls)
    /\ ~calls[i].sheetDone
    /\ calls' = [calls EXCEPT ![i].sheetDone = TRUE, ![i].sheet = rows]
    /\ UNCHANGED <<variant, products, loading, filter, sortConfig, debounce, sheetData, productData>>
    /\ UNCHANGED svcVars

\* inventoryService.fetchShopItems(filter.size) resolves
StockResolve(i, records) ==
    /\ i \in 1..Len(calls)
    /\ ~calls[i].stockDone
    /\ calls' = [calls EXCEPT ![i].stockDone = TRUE, ![i].stock = records]
    /\ UNCHANGED <<variant, products, loading, filter, sortConfig, debounce, sheetData, productData>>
    /\ UNCHANGED svcVars

\* a failed fetch that hands over the records of the previous search again
FetchFails_KeepsPrevious(i) ==
    /\ i \in 1..Len(calls)
    /\ ~calls[i].headers
    /\ StockResolve(i, productData)

\* fetch rejects (network error) or the response is not ok: the catch block
FetchFails(i) ==
    /\ i \in 1..Len(calls)
    /\ ~calls[i].headers
    /\ StockResolve(i, <<>>)

\* the 8 second timer fires while fetch is pending: controller.abort(), the
\* catch block
RequestTimeout(i) ==
    /\ i \in 1..Len(calls)
    /\ ~calls[i].headers
    /\ StockResolve(i, <<>>)

\* fetch resolves with an ok response: clearTimeout(timeoutId), then
\* response.text() is awaited with no timer left
ResponseArrives(i) ==
    /\ i \in 1..Len(calls)
    /\ ~calls[i].stockDone
    /\ ~calls[i].headers
    /\ calls' = [calls EXCEPT ![i].headers = TRUE]
    /\ UNCHANGED <<variant, products, loading, filter, sortConfig, debounce, sheetData, productData>>
    /\ UNCHANGED svcVars

\* response.text() resolves
BodyArrives(i, text) ==
    /\ i \in 1..Len(calls)
    /\ calls[i].headers
    /\ StockResolve(i, fetchedItems(policy, serviceProducts, inventory, text))

\* response.text() rejects (the connection drops): the catch block
BodyFails(i) ==
    /\ i \in 1..Len(calls)
    /\ calls[i].headers
    /\ StockResolve(i, <<>>)

\* loadData that awaits the ledger fetch only and merges what the stock fetch
\* has delivered so far
LoadDataFinish_AfterSheet(i) ==
    /\ i \in 1..Len(calls)
    /\ calls[i].sheetDone
    /\ sheetData' = calls[i].sheet
    /\ productData' = calls[i].stock
    /\ IF variant = "sheetFirst"
       THEN /\ products' = mergeSheetFirst(calls[i].sheet, calls[i].stock, calls[i].size)
            /\ sortConfig' = [key |-> "totalStock", direction |-> "desc"]
       ELSE /\ products' = mergeStockFirst(calls[i].sheet, calls[i].stock)
            /\ UNCHANGED sortConfig
    /\ loading' = FALSE
    /\ calls' = RemoveAt(calls, i)
    /\ UNCHANGED <<variant, filter, debounce>>
    /\ UNCHANGED svcVars

\* loadData from the merge to finally
LoadDataFinish(i) ==
    /\ i \in 1..Len(calls)
    /\ calls[i].sheetDone /\ calls[i].stockDone
    /\ sheetData' = calls[i].sheet
    /\ productData' = calls[i].stock
    /\ IF variant = "sheetFirst"
       THEN /\ products' = mergeSheetFirst(calls[i].sheet, calls[i].stock, calls[i].size)
            /\ sortConfig' = [key |-> "totalStock", direction |-> "desc"]
       ELSE /\ products' = mergeStockFirst(calls[i].sheet, calls[i].stock)
            /\ UNCHANGED sortConfig
    /\ loading' = FALSE
    /\ calls' = RemoveAt(calls, i)
    /\ UNCHANGED <<variant, filter, debounce>>
    /\ UNCHANGED svcVars

\* handleSort that toggles whatever the key: a newly selected key keeps the
\* direction flipping instead of starting ascending
HandleSort_ToggleAnyKey(key) ==
    /\ sortConfig' = [key |-> key,
                      direction |-> IF sortConfig.direction = "asc" THEN "desc" ELSE "asc"]
    /\ UNCHANGED <<variant, products, loading, filter, calls, debounce, sheetData, productData>>
    /\ UNCHANGED svcVars

HandleSort(key) ==
    /\ sortConfig' = [key |-> key,
                      direction |-> IF sortConfig.key = key /\ sortConfig.direction = "asc"
                                    THEN "desc" ELSE "asc"]
    /\ UNCHANGED <<variant, products, loading, filter, calls, debounce, sheetData, productData>>
    /\ UNCHANGED svcVars

\* the factory price input's onChange; the rows are rendered only while
\* loading is false
EditFactoryPrice(i, typed) ==
    /\ ~loading
    /\ i \in filteredProducts
    /\ products' = handlePriceUpdate(variant, products, i, "factoryPrice", typed)
    /\ UNCHANGED <<variant, loading, filter, sortConfig, calls, debounce, sheetData, productData>>
    /\ UNCHANGED svcVars

\* the discount input's onChange
EditDiscountRate(i, typed) ==
    /\ ~loading
    /\ i \in filteredProducts
    /\ products' = handlePriceUpdate(variant, products, i, "discountRate",
                                     discountInputValue(variant, typed))
    /\ UNCHANGED <<variant, loading, filter, sortConfig, calls, debounce, sheetData, productData>>
    /\ UNCHANGED svcVars

Next ==
    \/ \E v \in UiSizes : SetSize(v)
    \/ LoadDataStart(MaxInFlight)
    \/ DebounceFire(MaxInFlight)
    \/ \E i \in 1..MaxInFlight : \E rows \in UiSheets : SheetResolve(i, rows)
    \/ \E i \in 1..MaxInFlight : FetchFails(i)
    \/ \E i \in 1..MaxInFlight : RequestTimeout(i)
    \/ \E i \in 1..MaxInFlight : ResponseArrives(i)
    \/ \E i \in 1..MaxInFlight : \E text \in ResponseTexts : BodyArrives(i, text)
    \/ \E i \in 1..MaxInFlight : BodyFails(i)
    \/ \E i \in 1..MaxInFlight : LoadDataFinish(i)
    \/ \E key \in SortKeys : HandleSort(key)
    \/ \E i \in 1..MaxLedger : \E typed \in TypedPrices : EditFactoryPrice(i, typed)
    \/ \E i \in 1..MaxLedger : \E typed \in TypedDiscounts : EditDiscountRate(i, typed)

Spec == Init /\ [][Next]_vars

----------------------------------------------------------------------------
(* The parser on its own: a document arrives and parseShopData reads it.   *)

colsValid == StockCols(sKumho, sModelN, sCodeP, sSize25R4, sPaddedA, sStock3, sPrice4, sOnSale)

TableRows ==
    { StockTr(colsValid),
      \* same product again with another stock figure
      StockTr(StockCols(sKumho, sModelN, sCodeP, sSize25R4, sA, <<"7">>, sPrice4, sOnSale)),
      \* another product
      StockTr(StockCols(sHankook, sModelM, sCodeP, sSize35, sAB, <<"7">>, sPrice4, sOnSale)),
      \* discontinued
      StockTr(StockCols(sHankook, sModelM, sCodeP, sSize25, sAB, sStock3, sPrice4, sDiscontinued)),
      \* brand and model that hold the '-' of the dedup key
      StockTr(StockCols(<<"A", "-", "B">>, <<"C">>, sCodeP, sSize25, sA, sStock3, sPrice4, sOnSale)),
      StockTr(StockCols(<<"A">>, <<"B", "-", "C">>, sCodeP, sSize25, sA, <<"7">>, sPrice4, sOnSale)),
      \* no unique code, and the literal code "0"
      StockTr(StockCols(sHankook, sModelM, sCodeP, sSize25, <<>>, sStock3, sPrice4, sOnSale)),
      StockTr(StockCols(sHankook, sModelN, sCodeP, sSize35, sZero, <<>>, <<>>, sOnSale)),
      \* four cells, and five cells
      StockTr(<<Cell(<<>>), Cell(sKumho), Cell(sModelN), Cell(sCodeP)>>),
      StockTr(<<Cell(<<>>), Cell(sKumho), Cell(sModelM), Cell(sCodeP), Cell(sSize25)>>),
      \* rows the selector does not match
      Tr("stock-list_table", "thead", colsValid),
      Tr("other", "tbody", colsValid) }

Documents == SeqsUpTo(TableRows, MaxRows)

Policies == {"retainAll", "excludeEmpty"}

InitParse ==
    /\ variant = "sheetFirst"
    /\ products = <<>>
    /\ loading = FALSE
    /\ filter = [size |-> <<>>, brand |-> "All"]
    /\ sortConfig = InitialSort("sheetFirst")
    /\ calls = <<>>
    /\ debounce = FALSE
    /\ sheetData = <<>>
    /\ productData = <<>>
    /\ policy \in Policies
    /\ responseBody \in Documents
    /\ parsedData = NotParsed
    /\ ShopIdle

ParseShopData ==
    /\ ~parsedData.done
    /\ parsedData' = [done |-> TRUE,
                      threw |-> parseShopData(policy, responseBody).threw,
                      items |-> parseShopData(policy, responseBody).items]
    /\ UNCHANGED <<policy, responseBody>>
    /\ UNCHANGED <<uiVars, shopVars>>

NextParse == ParseShopData

SpecParse == InitParse /\ [][NextParse]_vars

----------------------------------------------------------------------------
(* InventoryService: the mock database, search and placeOrder *)

MaxInventory == 3   \* inventory records in the mock database
MaxOrders == 1      \* placeOrder calls in one behaviour

UpperCase == <<"A", "B", "C", "H", "K", "M", "N", "R">>
LowerCase == <<"a", "b", "c", "h", "k", "m", "n", "r">>

\* String.prototype.toLowerCase
toLowerCase(s) ==
    [i \in 1..Len(s) |->
        IF \E k \in 1..Len(UpperCase) : UpperCase[k] = s[i]
        THEN LowerCase[CHOOSE k \in 1..Len(UpperCase) : UpperCase[k] = s[i]]
        ELSE s[i]]

sAll == <<"A", "l", "l">>

\* !f || f === 'All' || value === f
matchesFilter(f, value) == ~Truthy(f) \/ f = sAll \/ value = f

\* query?.toLowerCase() || ''
lowerQuery(criteria) ==
    IF Get(criteria, "query") = Undefined THEN <<>> ELSE toLowerCase(criteria.query)

\* the predicate of this.products.filter in search
matchesCriteria(p, criteria) ==
    /\ \/ lowerQuery(criteria) = <<>>
       \/ includes(p.size, lowerQuery(criteria))
       \/ includes(toLowerCase(p.model), lowerQuery(criteria))
       \/ includes(toLowerCase(p.brand), lowerQuery(criteria))
    /\ matchesFilter(Get(criteria, "brand"), p.brand)
    /\ matchesFilter(Get(criteria, "type"), p.type)
    /\ matchesFilter(Get(criteria, "season"), p.season)

\* productInv.find(i => i.type === t)?.stockQty || 0
stockOfType(productInv, t) ==
    LET found == {i \in 1..Len(productInv) : productInv[i].type = t}
    IN IF found = {} THEN 0 ELSE productInv[Min(found)].stockQty

\* Math.round(cost * 1.2)
retailPrice(cost) == (12 * cost + 5) \div 10

\* the callback of .map in search: the product with its inventory summary
enrich(product, inv) ==
    LET productInv == SelectSeq(inv, LAMBDA i : i.productId = product.id)
        storeStock == stockOfType(productInv, "store")
        warehouseStock == stockOfType(productInv, "warehouse")
        price == IF productInv # <<>> /\ productInv[1].cost # 0
                 THEN retailPrice(productInv[1].cost) ELSE 0
    IN [id |-> product.id, brand |-> product.brand, model |-> product.model,
        size |-> product.size, type |-> product.type, season |-> product.season,
        storeStock |-> storeStock, warehouseStock |-> warehouseStock,
        price |-> price, totalStock |-> storeStock + warehouseStock]

\* comparator that looks at the store stock only
compareProducts_StockOnly(a, b) == b.storeStock - a.storeStock

\* the comparator of .sort in search
compareProducts(a, b) ==
    IF a.storeStock # b.storeStock THEN b.storeStock - a.storeStock
    ELSE a.price - b.price

RECURSIVE insertSorted(_, _)
insertSorted(sorted, p) ==
    IF sorted = <<>> THEN <<p>>
    ELSE IF compareProducts(Head(sorted), p) <= 0
         THEN <<Head(sorted)>> \o insertSorted(Tail(sorted), p)
         ELSE <<p>> \o sorted

RECURSIVE sortProducts(_)
\* Array.prototype.sort with the comparator (stable)
sortProducts(list) ==
    IF list = <<>> THEN <<>>
    ELSE insertSorted(sortProducts(SubSeq(list, 1, Len(list) - 1)), list[Len(list)])

\* search(criteria)
search(prods, inv, criteria) ==
    LET matching == SelectSeq(prods, LAMBDA p : matchesCriteria(p, criteria))
    IN sortProducts([i \in 1..Len(matching) |-> enrich(matching[i], inv)])

\* this.inventory.find(i => i.productId === productId && i.type === source), 0 when undefined
findRecord(inv, productId, source) ==
    LET found == {i \in 1..Len(inv) : inv[i].productId = productId /\ inv[i].type = source}
    IN IF found = {} THEN 0 ELSE Min(found)

\* placeOrder that decrements before it checks the stock
placeOrder_DecrementFirst(inv, productId, qty, source) ==
    LET r == findRecord(inv, productId, source)
        left == [inv EXCEPT ![r].stockQty = @ - qty]
    IN IF r = 0 THEN [outcome |-> "RecordNotFound", inventory |-> inv, alert |-> FALSE]
       ELSE IF inv[r].stockQty < qty
       THEN [outcome |-> "InsufficientStock", inventory |-> left, alert |-> FALSE]
       ELSE [outcome |-> "ok", inventory |-> left,
             alert |-> left[r].stockQty <= left[r].reorderPoint]

\* placeOrder that decrements every record of the product at the source
placeOrder_AllMatching(inv, productId, qty, source) ==
    LET r == findRecord(inv, productId, source)
        left == [i \in 1..Len(inv) |->
                    IF inv[i].productId = productId /\ inv[i].type = source
                    THEN [inv[i] EXCEPT !.stockQty = @ - qty] ELSE inv[i]]
    IN IF r = 0 THEN [outcome |-> "RecordNotFound", inventory |-> inv, alert |-> FALSE]
       ELSE IF inv[r].stockQty < qty
       THEN [outcome |-> "InsufficientStock", inventory |-> inv, alert |-> FALSE]
       ELSE [outcome |-> "ok", inventory |-> left,
             alert |-> left[r].stockQty <= left[r].reorderPoint]

\* placeOrder(productId, qty, source): how it ends, the inventory it leaves, and
\* whether it logs the low-stock alert
placeOrder(inv, productId, qty, source) ==
    LET r == findRecord(inv, productId, source)
    IN IF r = 0 THEN [outcome |-> "RecordNotFound", inventory |-> inv, alert |-> FALSE]
       ELSE IF inv[r].stockQty < qty
       THEN [outcome |-> "InsufficientStock", inventory |-> inv, alert |-> FALSE]
       ELSE LET left == [inv EXCEPT ![r].stockQty = @ - qty]
            IN [outcome |-> "ok", inventory |-> left,
                alert |-> left[r].stockQty <= left[r].reorderPoint]

sCar == <<"c", "a", "r">>
sSuv == <<"s", "u", "v">>
sSummer == <<"s", "u", "m">>
sWinter == <<"w", "i", "n">>

Product(id, brand, model, size, type, season) ==
    [id |-> id, brand |-> brand, model |-> model, size |-> size, type |-> type,
     season |-> season]

product1 == Product(1, sHankook, sModelM, sSize25R, sCar, sSummer)
product2 == Product(2, sKumho, sModelN, sSize25, sCar, sWinter)
product3 == Product(3, sHankook, sModelN, sSize35, sSuv, sSummer)

ProductLists == {<<>>, <<product1, product2, product3>>}

InventoryRecord(productId, type, stockQty, reorderPoint, cost) ==
    [productId |-> productId, type |-> type, stockQty |-> stockQty,
     reorderPoint |-> reorderPoint, cost |-> cost]

InventoryRecords ==
    { InventoryRecord(1, "store", 5, 4, 83),
      InventoryRecord(2, "store", 5, 0, 42),
      InventoryRecord(3, "store", 10, 4, 167),
      InventoryRecord(1, "warehouse", 6, 0, 83),
      InventoryRecord(1, "store", 1, 0, 0) }

Inventories == SeqsUpTo(InventoryRecords, MaxInventory)

ProductIds == {1, 9}
Quantities == {1, 6}
Sources == {"store", "warehouse"}

SearchCriteria ==
    { [query |-> <<>>],
      [query |-> <<"R">>],
      [query |-> <<"n">>, brand |-> sAll],
      [brand |-> sHankook, type |-> sSuv],
      [query |-> <<"5">>, season |-> sSummer, type |-> <<>>],
      [query |-> <<"H">>, type |-> sCar, season |-> sWinter] }

\* the service after init()
InitService ==
    /\ variant = "sheetFirst"
    /\ products = <<>>
    /\ loading = FALSE
    /\ filter = [size |-> <<>>, brand |-> "All"]
    /\ sortConfig = InitialSort("sheetFirst")
    /\ calls = <<>>
    /\ debounce = FALSE
    /\ sheetData = <<>>
    /\ productData = <<>>
    /\ policy = "retainAll"
    /\ responseBody = <<>>
    /\ parsedData = NotParsed
    /\ serviceProducts \in ProductLists
    /\ inventory \in Inventories
    /\ orders = 0
    /\ lastOrder = NoOrder
    /\ lastSearch = NoSearch
    /\ searchResult = <<>>

Search(criteria) ==
    /\ lastSearch' = criteria
    /\ searchResult' = search(serviceProducts, inventory, criteria)
    /\ UNCHANGED <<serviceProducts, inventory, orders, lastOrder>>
    /\ UNCHANGED <<uiVars, parseVars>>

PlaceOrder(productId, qty, source) ==
    /\ orders < MaxOrders
    /\ orders' = orders + 1
    /\ inventory' = placeOrder(inventory, productId, qty, source).inventory
    /\ lastOrder' = [productId |-> productId, qty |-> qty, source |-> source,
                     outcome |-> placeOrder(inventory, productId, qty, source).outcome,
                     alert |-> placeOrder(inventory, productId, qty, source).alert]
    /\ UNCHANGED <<serviceProducts, lastSearch, searchResult>>
    /\ UNCHANGED <<uiVars, parseVars>>

NextService ==
    \/ \E criteria \in SearchCriteria : Search(criteria)
    \/ \E productId \in ProductIds, qty \in Quantities, source \in Sources :
           PlaceOrder(productId, qty, source)

SpecService == InitService /\ [][NextService]_vars

----------------------------------------------------------------------------
(* placeOrder with any numeric quantity: the function does not look at the *)
(* sign of qty.                                                            *)

AnyQuantities == {-1, 0, 1, 6}

NextOrders ==
    \E productId \in ProductIds, qty \in AnyQuantities, source \in Sources :
        PlaceOrder(productId, qty, source)

SpecOrders == InitService /\ [][NextOrders]_vars

----------------------------------------------------------------------------
(* fetchShopItems on its own: a response body has been read and the        *)
(* function returns.                                                       *)

InitResponse ==
    /\ variant = "sheetFirst"
    /\ products = <<>>
    /\ loading = FALSE
    /\ filter = [size |-> <<>>, brand |-> "All"]
    /\ sortConfig = InitialSort("sheetFirst")
    /\ calls = <<>>
    /\ debounce = FALSE
    /\ sheetData = <<>>
    /\ productData = <<>>
    /\ policy \in Policies
    /\ responseBody \in ResponseTexts
    /\ parsedData = NotParsed
    /\ serviceProducts \in ProductLists
    /\ inventory \in Inventories
    /\ orders = 0
    /\ lastOrder = NoOrder
    /\ lastSearch = NoSearch
    /\ searchResult = <<>>

\* fetchShopItems from the login-page check to its return
FetchShopItemsReturns ==
    /\ ~parsedData.done
    /\ parsedData' = [done |-> TRUE, threw |-> FALSE,
                      items |-> fetchedItems(policy, serviceProducts, inventory, responseBody)]
    /\ UNCHANGED <<policy, responseBody>>
    /\ UNCHANGED <<uiVars, shopVars>>

NextResponse == FetchShopItemsReturns

SpecResponse == InitResponse /\ [][NextResponse]_vars

----------------------------------------------------------------------------
(* The search pipeline with overlapping loadData invocations: the Enter key *)
(* and the debounce timer start a search while another is in flight.       *)

MaxOverlap == 2     \* loadData invocations in flight at one time, overlapping

\* inventoryService.init(): the mock database is loaded once
ServiceInit ==
    /\ serviceProducts = <<>>
    /\ serviceProducts' = <<product1, product2, product3>>
    /\ inventory' = << InventoryRecord(1, "store", 5, 4, 83),
                       InventoryRecord(1, "warehouse", 6, 0, 83),
                       InventoryRecord(3, "store", 10, 4, 167) >>
    /\ UNCHANGED <<orders, lastOrder, lastSearch, searchResult>>
    /\ UNCHANGED <<uiVars, parseVars>>

NextFetch ==
    \/ \E v \in UiSizes : SetSize(v)
    \/ LoadDataStart(MaxOverlap)
    \/ DebounceFire(MaxOverlap)
    \/ \E i \in 1..MaxOverlap : \E rows \in UiSheets : SheetResolve(i, rows)
    \/ \E i \in 1..MaxOverlap : FetchFails(i)
    \/ \E i \in 1..MaxOverlap : RequestTimeout(i)
    \/ \E i \in 1..MaxOverlap : ResponseArrives(i)
    \/ \E i \in 1..MaxOverlap : \E text \in ResponseTexts : BodyArrives(i, text)
    \/ \E i \in 1..MaxOverlap : BodyFails(i)
    \/ \E i \in 1..MaxOverlap : LoadDataFinish(i)
    \/ ServiceInit

SpecFetch == Init /\ [][NextFetch]_vars

----------------------------------------------------------------------------
(* Properties of one reconcile pass *)

Indices(s) == 1..Len(s)

\* the bag of the values f(s[i])
BagOf(s, f(_)) ==
    LET vals == {f(s[i]) : i \in Indices(s)}
    IN [x \in vals |-> Cardinality({i \in Indices(s) : f(s[i]) = x})]

Merged == ~loading

\* the ledger rows the claims call candidates: size contains the query, price > 0
Candidates ==
    SelectSeq(sheetData, LAMBDA d :
        includes(normalizeSize(d.size), normalizeSize(filter.size)) /\ d.factoryPrice > 0)

\* C1: every product of one reconcile pass, sheet-first or stock-first, has
\* factoryPrice > 0.
C1_MergedHavePrice ==
    Merged => \A i \in Indices(products) :
                  products[i].factoryPrice.t = "number" /\ products[i].factoryPrice.v > 0

\* both directions must drop something: an unpriced or unmatched record is in the inputs
C1_Witness ==
    /\ Merged
    /\ products # <<>>
    /\ \/ variant = "sheetFirst" /\ Len(products) < Len(sheetData)
       \/ variant = "stockFirst" /\ Len(products) < Len(productData)
    /\ \E i \in Indices(sheetData) : sheetData[i].factoryPrice <= 0

CodeAndPrice(p) == <<p.partNo, p.factoryPrice>>
RowCodeAndPrice(s) == <<s.code, Num(s.factoryPrice)>>

\* C3: in the sheet-first merge every candidate ledger row yields exactly one product
\* (with zero stock and supply price when no stock record matches it), and nothing
\* else yields a product.
C3_OneProductPerCandidate ==
    (Merged /\ variant = "sheetFirst") =>
        /\ Len(products) = Len(Candidates)
        /\ BagOf(products, CodeAndPrice) = BagOf(Candidates, RowCodeAndPrice)
        /\ \A i \in Indices(products) :
               findInventoryMatch(productData, products[i].partNo) = 0
                   => products[i].totalStock = 0 /\ products[i].supplyPrice = 0

C3_Witness ==
    /\ Merged /\ variant = "sheetFirst"
    /\ Len(products) = 2
    /\ \E i \in Indices(products) :
           findInventoryMatch(productData, products[i].partNo) = 0
    /\ \E j \in Indices(productData) :
           \A i \in Indices(sheetData) :
               findInventoryMatch(productData, sheetData[i].code) # j

\* the match the priority rule prescribes: unique code first, alternate identifiers after
PriorityMatch(stock, sheetCode) ==
    LET sCode == trim(StringOrEmpty(sheetCode))
        primary == {i \in Indices(stock) : trim(StringOrEmpty(Get(stock[i], "partNo"))) = sCode}
        alternate == {i \in Indices(stock) :
                         \/ trim(StringOrEmpty(Get(stock[i], "itId"))) = sCode
                         \/ trim(StringOrEmpty(Get(stock[i], "stId"))) = sCode}
    IN IF primary # {} THEN Min(primary)
       ELSE IF alternate # {} THEN Min(alternate) ELSE 0

\* C4: the matcher selects the first stock record whose unique code equals the ledger
\* code, and a record matching on an alternate identifier only when there is none.
C4_PriorityMatch ==
    (Merged /\ variant = "sheetFirst") =>
        \A i \in Indices(sheetData) :
            findInventoryMatch(productData, sheetData[i].code)
                = PriorityMatch(productData, sheetData[i].code)

\* C5: a ledger code and a stock unique code match if and only if their trimmed
\* strings are identical, in both merge directions.
C5_ExactTrimmedMatch ==
    Merged =>
        \A i \in Indices(sheetData) : \A j \in Indices(productData) :
            LET d == sheetData[i]
                p == productData[j]
                same == trim(StringOrEmpty(d.code)) = trim(StringOrEmpty(p.partNo))
            IN IF variant = "sheetFirst"
               THEN matchesSheetCode(p, trim(StringOrEmpty(d.code))) <=> same
               ELSE matchesPartNo(p, d) <=> same

\* what C6 prescribes for a ledger row s
C6_Expected(s) ==
    LET m == findInventoryMatch(productData, s.code)
    IN <<s.code,
         IF s.brand # <<>> THEN s.brand ELSE IF m # 0 THEN productData[m].brand ELSE Undefined,
         IF s.model # <<>> THEN s.model ELSE IF m # 0 THEN productData[m].model ELSE Undefined,
         IF m # 0 THEN productData[m].size ELSE s.size>>

C6_Actual(p) == <<p.partNo, p.brand, p.model, p.size>>

\* C6: brand and model are the ledger's when non-empty and the matched stock record's
\* otherwise; size is the matched stock record's whenever there is a match, else the
\* ledger's.
C6_FieldPriority ==
    (Merged /\ variant = "sheetFirst") =>
        BagOf(products, C6_Actual) = BagOf(Candidates, C6_Expected)

C6_Witness ==
    /\ Merged /\ variant = "sheetFirst"
    /\ \E i \in Indices(products) : \E j \in Indices(sheetData) :
           /\ sheetData[j].code = products[i].partNo
           /\ sheetData[j].brand = <<>>
           /\ products[i].brand = sKumho
    /\ \E i \in Indices(products) : \E j \in Indices(sheetData) :
           /\ sheetData[j].code = products[i].partNo
           /\ sheetData[j].size # <<>>
           /\ products[i].size = <<>>

\* what C7 prescribes for a ledger row s
C7_Expected(s) ==
    LET m == findInventoryMatch(productData, s.code)
    IN <<s.code, Num(s.factoryPrice),
         IF "dotList" \in DOMAIN s THEN s.dotList ELSE <<>>,
         IF m # 0 THEN productData[m].totalStock ELSE 0,
         IF m # 0 THEN productData[m].supplyPrice ELSE 0,
         Num(0)>>

C7_Actual(p) ==
    <<p.partNo, p.factoryPrice, p.dotList, p.totalStock, p.supplyPrice, p.discountRate>>

\* C7: factoryPrice and the DOT list come from the ledger row (empty list when it has
\* none), totalStock and supplyPrice from the matched stock record (0 when none), and
\* discountRate is 0.
C7_FieldSources ==
    (Merged /\ variant = "sheetFirst") =>
        BagOf(products, C7_Actual) = BagOf(Candidates, C7_Expected)

C7_Witness ==
    /\ Merged /\ variant = "sheetFirst"
    /\ \E i \in Indices(products) :
           products[i].totalStock > 0 /\ products[i].dotList = <<>>
    /\ \E i \in Indices(products) :
           /\ findInventoryMatch(productData, products[i].partNo) = 0
           /\ products[i].dotList # <<>>

\* C2: every product in the displayed list has a factory price greater
\* than zero, also after the user has edited prices.
C2_DisplayedHavePrice ==
    \A i \in filteredProducts :
        /\ products[i].factoryPrice.t = "number"
        /\ products[i].factoryPrice.v > 0

IsPrice(x) == x.t = "number" /\ x.v >= 0

IsRate(x) == x.t = "number" /\ x.v \in 0..100

\* floor(factoryPrice * (100 - discountRate) / 100) over the integers
exactDiscount(p) == Num((p.factoryPrice.v * (100 - p.discountRate.v)) \div 100)

\* C8: for a factory price >= 0 and a discount rate in 0..100 the price the
\* row, its numeric variant and the share text show is
\* floor(factoryPrice * (100 - discountRate) / 100).
C8_FloorOfDiscount ==
    \A i \in 1..Len(products) :
        (IsPrice(products[i].factoryPrice) /\ IsRate(products[i].discountRate)) =>
            /\ discountedPrice(products[i]) = exactDiscount(products[i])
            /\ discountedPriceNumber(products[i]) = exactDiscount(products[i])
            /\ sharePrice(products[i]) = exactDiscount(products[i])

\* C9: a product's discount rate stays within 0..100 whatever the user
\* types, so the discounted price lies between 0 and the factory price.
C9_DiscountClamped ==
    \A i \in 1..Len(products) :
        /\ products[i].discountRate.t = "number" => products[i].discountRate.v \in 0..100
        /\ IsPrice(products[i].factoryPrice) =>
              /\ discountedPrice(products[i]).t = "number"
              /\ discountedPrice(products[i]).v \in 0..products[i].factoryPrice.v

\* C10: parseShopData never throws, and a document in which the selector
\* finds no stock-table row parses to the empty list.
C10_ParseNeverFails ==
    parsedData.done =>
        /\ ~parsedData.threw
        /\ stockRows(responseBody) = <<>> => parsedData.items = <<>>

\* a parsed document that has rows, none of them a stock-table row, and a
\* parsed document whose stock-table rows lack the later cells
C10_Witness ==
    /\ parsedData.done
    /\ \/ /\ responseBody # <<>>
          /\ stockRows(responseBody) = <<>>
          /\ parsedData.items = <<>>
       \/ /\ \E i \in 1..Len(responseBody) :
                isStockRow(responseBody[i]) /\ Len(responseBody[i].cols) \in 5..9
          /\ ~parsedData.threw

\* the row carries the discontinuation marker in its last or second-to-last cell
isDiscontinuedRow(cols) ==
    \/ includes(trim(cols[Len(cols)].text), sDiscontinued)
    \/ includes(trim(cols[Len(cols) - 1].text), sDiscontinued)

\* the unique code in the sixth cell, as typed into its input
rowCode(cols) ==
    IF Len(cols) < 6 THEN <<>>
    ELSE IF "input" \in DOMAIN cols[6] THEN trim(cols[6].input) ELSE trim(cols[6].text)

\* a row the policy accepts: enough cells, and under the exclude-empty policy a code
isWellFormedRow(pol, cols) ==
    /\ Len(cols) >= 5
    /\ pol = "excludeEmpty" => rowCode(cols) \notin {<<>>, <<"0">>}

\* the stock-table rows that are well formed and not discontinued, in document order
liveRows(pol, doc) ==
    SelectSeq(stockRows(doc),
              LAMBDA tr : isWellFormedRow(pol, tr.cols) /\ ~isDiscontinuedRow(tr.cols))

\* the records of those rows
liveRecords(pol, doc) ==
    [i \in 1..Len(liveRows(pol, doc)) |-> parseRow(pol, liveRows(pol, doc)[i].cols).item]

\* C11: the parser emits no record for a row whose last or second-to-last
\* cell holds the discontinuation marker and emits the other well-formed
\* rows in document order (duplicates of an earlier row aside).
C11_DiscontinuedExcluded ==
    parsedData.done => parsedData.items = uniqueItems(liveRecords(policy, responseBody))

\* the records the parser may emit for the document: those of its live rows
RecordsOfLiveRows(pol, doc) ==
    {liveRecords(pol, doc)[i] : i \in 1..Len(liveRecords(pol, doc))}

\* C12: under the exclude-empty policy no emitted record has an empty or
\* "0" unique code; under the retain-all policy every non-discontinued row
\* with enough cells is emitted (its key is among the output's keys); under
\* both policies no record of a discontinued row is emitted.
C12_PolicyContract ==
    parsedData.done =>
        /\ policy = "excludeEmpty" =>
              \A i \in 1..Len(parsedData.items) :
                  parsedData.items[i].partNo \notin {<<>>, <<"0">>}
        /\ policy = "retainAll" =>
              \A r \in RecordsOfLiveRows("retainAll", responseBody) :
                  \E i \in 1..Len(parsedData.items) :
                      dedupKey(parsedData.items[i]) = dedupKey(r)
        /\ \A i \in 1..Len(parsedData.items) :
              parsedData.items[i] \in RecordsOfLiveRows(policy, responseBody)

RECURSIVE firstOccurrencesFrom(_, _)
\* the records x[i..] that no earlier record of x shares its key with
firstOccurrencesFrom(x, i) ==
    IF i > Len(x) THEN <<>>
    ELSE IF \E j \in 1..(i - 1) : dedupKey(x[j]) = dedupKey(x[i])
    THEN firstOccurrencesFrom(x, i + 1)
    ELSE <<x[i]>> \o firstOccurrencesFrom(x, i + 1)

\* C13: deduplication keeps the first record of each key in the order of
\* first appearance, and deduplicating its output again changes nothing.
C13_DedupFirstWins ==
    parsedData.done =>
        /\ parsedData.items = firstOccurrencesFrom(parsedItems(policy, responseBody), 1)
        /\ uniqueItems(parsedData.items) = parsedData.items

\* a parse in which a later record with another stock figure repeated the
\* key of an earlier one and was dropped, with two records kept
C13_Witness ==
    /\ parsedData.done
    /\ Len(parsedData.items) >= 2
    /\ LET x == parsedItems(policy, responseBody)
       IN \E i, j \in 1..Len(x) :
              /\ i < j
              /\ dedupKey(x[i]) = dedupKey(x[j])
              /\ x[i].totalStock # x[j].totalStock
              /\ \E k \in 1..Len(parsedData.items) : parsedData.items[k] = x[i]

\* the composite key as a tuple of its four components
keyTuple(item) == <<item.brand, item.model, item.size, item.partNo>>

RECURSIVE firstOfTupleFrom(_, _)
\* the records x[i..] that no earlier record of x shares its tuple with
firstOfTupleFrom(x, i) ==
    IF i > Len(x) THEN <<>>
    ELSE IF \E j \in 1..(i - 1) : keyTuple(x[j]) = keyTuple(x[i])
    THEN firstOfTupleFrom(x, i + 1)
    ELSE <<x[i]>> \o firstOfTupleFrom(x, i + 1)

\* C14: deduplication removes a record exactly when an earlier record has
\* the same (brand, model, size, code) tuple, also when the components hold
\* the '-' that joins the key.
C14_DedupByTuple ==
    parsedData.done =>
        parsedData.items = firstOfTupleFrom(parsedItems(policy, responseBody), 1)

\* the positions of the inventory records of the product at the source
recordsOf(productId, source) ==
    {i \in 1..Len(inventory) :
        inventory[i].productId = productId /\ inventory[i].type = source}

\* the step is a placeOrder call
IsOrderStep == orders' = orders + 1

\* C15: placeOrder ends in record-not-found exactly when the product has no
\* inventory record at the source, in insufficient-stock exactly when its
\* first such record holds less than qty, and in both cases the inventory
\* and the product list stay as they were.
C15_FailedOrderKeepsState ==
    [][IsOrderStep =>
          LET matching == recordsOf(lastOrder'.productId, lastOrder'.source)
          IN /\ lastOrder'.outcome = "RecordNotFound" <=> matching = {}
             /\ lastOrder'.outcome = "InsufficientStock" <=>
                   (matching # {} /\ inventory[Min(matching)].stockQty < lastOrder'.qty)
             /\ lastOrder'.outcome \in {"RecordNotFound", "InsufficientStock"} =>
                   /\ inventory' = inventory
                   /\ serviceProducts' = serviceProducts
                   /\ ~lastOrder'.alert]_vars

\* an order for more than the positive stock of an existing record was refused
C15_Witness ==
    /\ lastOrder.outcome = "InsufficientStock"
    /\ \E i \in recordsOf(lastOrder.productId, lastOrder.source) :
           inventory[i].stockQty > 0 /\ inventory[i].stockQty < lastOrder.qty

\* C16: a placeOrder that succeeds takes qty from the first record of the
\* product at the source and from nothing else, leaves the product list
\* alone, logs the low-stock alert exactly when the remaining stock is at or
\* below the record's reorder point, and succeeds whenever that record holds
\* at least qty.
C16_OrderDecrementsFirstRecord ==
    [][IsOrderStep =>
          LET matching == recordsOf(lastOrder'.productId, lastOrder'.source)
              r == Min(matching)
          IN /\ (matching # {} /\ inventory[r].stockQty >= lastOrder'.qty) =>
                    lastOrder'.outcome = "ok"
             /\ lastOrder'.outcome = "ok" =>
                   /\ matching # {}
                   /\ inventory' = [inventory EXCEPT ![r].stockQty = @ - lastOrder'.qty]
                   /\ serviceProducts' = serviceProducts
                   /\ lastOrder'.alert <=>
                         inventory[r].stockQty - lastOrder'.qty <= inventory[r].reorderPoint]_vars

\* a successful order with the alert, for a product with two records at the source
C16_Witness ==
    /\ lastOrder.outcome = "ok"
    /\ lastOrder.alert
    /\ Cardinality(recordsOf(lastOrder.productId, lastOrder.source)) >= 2
    /\ serviceProducts # <<>>

\* the free-text query of the criteria, empty when there is none
queryOf(criteria) ==
    IF Get(criteria, "query") = Undefined THEN <<>> ELSE criteria.query

\* s contains t when letter case is ignored
includesIgnoringCase(s, t) == includes(toLowerCase(s), toLowerCase(t))

\* the filter is unset, "All", or the product's value
filterAdmits(f, value) == f \in {Undefined, <<>>, sAll} \/ f = value

\* the products the criteria select: the query matches size, model or brand
\* whatever the case, and every filter admits the product
selects(criteria, p) ==
    /\ \/ queryOf(criteria) = <<>>
       \/ includesIgnoringCase(p.size, queryOf(criteria))
       \/ includesIgnoringCase(p.model, queryOf(criteria))
       \/ includesIgnoringCase(p.brand, queryOf(criteria))
    /\ filterAdmits(Get(criteria, "brand"), p.brand)
    /\ filterAdmits(Get(criteria, "type"), p.type)
    /\ filterAdmits(Get(criteria, "season"), p.season)

\* C17: search returns exactly the products whose size, model or brand
\* contains the query when case is ignored (or the query is empty) and whose
\* brand, type and season pass the filters.
C17_SearchSelects ==
    lastSearch # NoSearch =>
        {searchResult[i].id : i \in 1..Len(searchResult)} =
            {serviceProducts[i].id :
                i \in {k \in 1..Len(serviceProducts) : selects(lastSearch, serviceProducts[k])}}

stockAndPrice(p) == <<p.storeStock, p.price>>

\* the (store stock, price) pairs of the latest search result, in its order
resultPairs == [i \in 1..Len(searchResult) |-> stockAndPrice(searchResult[i])]

\* the criteria's products with their inventory summary, in catalogue order
enrichedMatches ==
    LET matching == SelectSeq(serviceProducts, LAMBDA p : matchesCriteria(p, lastSearch))
    IN [i \in 1..Len(matching) |-> enrich(matching[i], inventory)]

\* C18: search results come by store stock descending and, for equal store
\* stock, by price ascending, and they are the matching products and no
\* others: (5,100), (5,50), (10,200) come out as (10,200), (5,50), (5,100).
C18_DefaultSort ==
    /\ \A i, j \in 1..Len(searchResult) :
           i < j =>
               \/ searchResult[i].storeStock > searchResult[j].storeStock
               \/ /\ searchResult[i].storeStock = searchResult[j].storeStock
                  /\ searchResult[i].price <= searchResult[j].price
    /\ (lastSearch # NoSearch /\ orders = 0) =>
           /\ Len(searchResult) = Len(enrichedMatches)
           /\ \A r \in {searchResult[i] : i \in 1..Len(searchResult)} :
                  Cardinality({i \in 1..Len(searchResult) : searchResult[i] = r})
                      = Cardinality({i \in 1..Len(enrichedMatches) : enrichedMatches[i] = r})

\* the three products of the example, found in the order (5,100), (5,50),
\* (10,200) and returned as (10,200), (5,50), (5,100)
C18_Witness ==
    /\ lastSearch # NoSearch /\ orders = 0
    /\ [i \in 1..Len(enrichedMatches) |-> stockAndPrice(enrichedMatches[i])]
           = <<<<5, 100>>, <<5, 50>>, <<10, 200>>>>
    /\ resultPairs = <<<<10, 200>>, <<5, 50>>, <<5, 100>>>>

\* the step is a column-header click: the sort changes and no search returns
IsSortStep == sortConfig' # sortConfig /\ calls' = calls

\* the step is a loadData invocation returning from its merge
IsSearchCompletion == Len(calls') < Len(calls)

\* descending exactly when the same key was sorted ascending, else ascending
Toggled ==
    sortConfig'.direction =
        IF sortConfig'.key = sortConfig.key /\ sortConfig.direction = "asc"
        THEN "desc" ELSE "asc"

DefaultSort == [key |-> "totalStock", direction |-> "desc"]

\* C19 (as claimed): selecting a sort key toggles the direction as above,
\* and every completed search resets the sort to totalStock descending.
C19_ToggleAndReset ==
    [][/\ IsSortStep => Toggled
       /\ IsSearchCompletion => sortConfig' = DefaultSort]_vars

\* C19 (amended): selecting a sort key toggles the direction as above; a
\* completed search resets the sort to totalStock descending in the
\* sheet-first version and leaves the sort as it is in the stock-first one.
C19_ToggleAndResetSheetFirst ==
    [][/\ IsSortStep => Toggled
       /\ IsSearchCompletion =>
             sortConfig' = IF variant = "sheetFirst" THEN DefaultSort ELSE sortConfig]_vars

\* the stock-first version shows a loaded list sorted by price descending,
\* which takes two selections of that key
C19_Witness ==
    /\ variant = "stockFirst"
    /\ products # <<>>
    /\ calls = <<>>
    /\ sortConfig = [key |-> "factoryPrice", direction |-> "desc"]

\* the step publishes a merge: a search returns, or the merged inputs change
IsPublishStep ==
    IsSearchCompletion \/ sheetData' # sheetData \/ productData' # productData

\* C20: a merge is computed and published only by a search whose ledger
\* fetch and stock fetch have both resolved, from the rows those two fetches
\* delivered.
C20_MergeAfterBothFetches ==
    [][IsPublishStep =>
          \E i \in 1..Len(calls) :
              /\ calls[i].sheetDone /\ calls[i].stockDone
              /\ calls' = RemoveAt(calls, i)
              /\ sheetData' = calls[i].sheet
              /\ productData' = calls[i].stock
              /\ products' = IF variant = "sheetFirst"
                             THEN mergeSheetFirst(calls[i].sheet, calls[i].stock, calls[i].size)
                             ELSE mergeStockFirst(calls[i].sheet, calls[i].stock)]_vars

\* one search has published its products while another has its ledger rows
\* and still waits for the stock fetch
C20_Witness ==
    /\ products # <<>>
    /\ \E i \in 1..Len(calls) :
           calls[i].sheetDone /\ ~calls[i].stockDone /\ calls[i].sheet # <<>>

----------------------------------------------------------------------------
(* Properties of the fetches *)

\* the stock fetch of the invocation ended without an ok response: network
\* error, non-OK status or abort
stockFailed(c) == c.stockDone /\ ~c.headers

\* the merge of the invocation's ledger rows with no stock records at all
mergedWithoutStock(c) ==
    IF variant = "sheetFirst" THEN mergeSheetFirst(c.sheet, <<>>, c.size)
    ELSE mergeStockFirst(c.sheet, <<>>)

\* C21: a failed stock fetch (network error, non-OK status, abort) hands the
\* empty sequence to the search that issued it, and that search still ends
\* with a merge, of its ledger rows and the empty sequence, which replaces
\* the product list; a failed ledger fetch is an empty ledger in the same way.
C21_FailedFetchMergesEmpty ==
    [][/\ \A i \in 1..Len(calls') : stockFailed(calls'[i]) => calls'[i].stock = <<>>
       /\ IsSearchCompletion =>
             \E i \in 1..Len(calls) :
                 /\ calls' = RemoveAt(calls, i)
                 /\ calls[i].sheetDone /\ calls[i].stockDone
                 /\ stockFailed(calls[i]) => products' = mergedWithoutStock(calls[i])
                 /\ calls[i].sheet = <<>> => products' = <<>>]_vars

\* products merged from stock records are on display and the next search,
\* whose stock fetch has failed, is about to publish
C21_Witness ==
    /\ products # <<>>
    /\ productData # <<>>
    /\ \E i \in 1..Len(calls) : stockFailed(calls[i]) /\ calls[i].sheetDone

\* One search at a time, with what the scheduling of the code guarantees: an
\* armed 8 second timer fires, a loadData invocation whose Promise.all has
\* resolved continues, and the ledger source answers. The stock source is
\* free to answer or not.
NextLive ==
    \/ \E v \in UiSizes : SetSize(v)
    \/ LoadDataStart(MaxInFlight)
    \/ DebounceFire(MaxInFlight)
    \/ \E i \in 1..MaxInFlight : \E rows \in UiSheets : SheetResolve(i, rows)
    \/ \E i \in 1..MaxInFlight : FetchFails(i)
    \/ \E i \in 1..MaxInFlight : RequestTimeout(i)
    \/ \E i \in 1..MaxInFlight : ResponseArrives(i)
    \/ \E i \in 1..MaxInFlight : \E text \in ResponseTexts : BodyArrives(i, text)
    \/ \E i \in 1..MaxInFlight : BodyFails(i)
    \/ \E i \in 1..MaxInFlight : LoadDataFinish(i)
    \/ ServiceInit

\* the step LoadDataFinish(i) takes, seen on calls alone: the invocation,
\* both of its fetches resolved, leaves the list
Returns(i) ==
    /\ i \in 1..Len(calls)
    /\ calls[i].sheetDone /\ calls[i].stockDone
    /\ calls' = RemoveAt(calls, i)

FairFetch ==
    /\ WF_vars(\E i \in 1..MaxInFlight : RequestTimeout(i))
    /\ WF_calls(\E i \in 1..MaxInFlight : Returns(i))
    /\ WF_vars(\E i \in 1..MaxInFlight : \E rows \in UiSheets : SheetResolve(i, rows))

SpecLive == Init /\ [][NextLive]_vars /\ FairFetch

\* C22: every started search eventually finishes, whatever the stock source
\* does: whenever loading is true it eventually returns to false.
C22_SearchTerminates == loading ~> ~loading

\* the response holds a stock table with at least one row for the parser
hasStockTable(text) == "<table" \in text.markers /\ stockRows(text.doc) # <<>>

\* C23: a response without a table (a login page) makes fetchShopItems
\* return the empty sequence, and a response that holds a valid stock table
\* is parsed whatever else its text contains.
C23_NonTableIsEmptyFetch ==
    parsedData.done =>
        /\ "<table" \notin responseBody.markers => parsedData.items = <<>>
        /\ hasStockTable(responseBody) =>
               parsedData.items = parseShopData(policy, responseBody.doc).items

----------------------------------------------------------------------------
(* Properties of the overrides *)

\* the step is an edit of a price input: the list keeps its length and
\* its content changes while no search returns
IsEditStep ==
    /\ products' # products
    /\ Len(products') = Len(products)
    /\ calls' = calls

\* the ledger row a rebuilt product takes its factory price from
ledgerRowOf(p, sheet) ==
    {i \in 1..Len(sheet) : trim(sheet[i].code) = trim(p.partNo)
                           /\ Num(sheet[i].factoryPrice) = p.factoryPrice}

\* C24: a price or discount edit changes one field, factoryPrice or
\* discountRate, of one product and nothing else: not the other products,
\* not the other fields, not the fetched ledger and stock records; and a
\* search that returns rebuilds every product with discount 0 and the
\* factory price of its ledger row.
C24_OverrideFrame ==
    [][/\ IsEditStep =>
             /\ \E i \in 1..Len(products), f \in {"factoryPrice", "discountRate"} :
                    products' = [products EXCEPT ![i][f] = products'[i][f]]
             /\ UNCHANGED <<sheetData, productData, calls, filter, sortConfig, loading>>
       /\ IsSearchCompletion =>
             \A j \in 1..Len(products') :
                 /\ products'[j].discountRate = Num(0)
                 /\ ledgerRowOf(products'[j], sheetData') # {}]_vars

\* two products on display, the first with an edited discount and an
\* edited price, the second as the search built it
C24_Witness ==
    /\ Len(products) = 2
    /\ products[1].discountRate # Num(0)
    /\ products[1].factoryPrice.t # "number"
    /\ products[2].discountRate = Num(0)
    /\ ledgerRowOf(products[2], sheetData) # {}

----------------------------------------------------------------------------
(* Properties of the size filter and of the ledger-driven match *)

\* sub occurs in s as a run of consecutive characters
substringOf(sub, s) ==
    \E k \in 0..(Len(s) - Len(sub)) : SubSeq(s, k + 1, k + Len(sub)) = sub

\* the ledger row is a candidate of the size-driven search
isCandidate(d) ==
    substringOf(normalizeSize(filter.size), normalizeSize(d.size)) /\ d.factoryPrice > 0

candidateRows == {i \in Indices(sheetData) : isCandidate(sheetData[i])}

\* C25: in the size-driven (sheet-first) search a ledger row becomes a
\* product exactly when its normalized size contains the normalized query as
\* a substring and its factoryPrice is greater than 0; a query whose
\* normalized form is empty admits every priced row.
C25_SizeFilter ==
    (Merged /\ variant = "sheetFirst") =>
        /\ Len(products) = Cardinality(candidateRows)
        /\ \A i \in candidateRows :
               \E j \in Indices(products) :
                   CodeAndPrice(products[j]) = RowCodeAndPrice(sheetData[i])
        /\ \A j \in Indices(products) :
               \E i \in candidateRows :
                   CodeAndPrice(products[j]) = RowCodeAndPrice(sheetData[i])
        /\ normalizeSize(filter.size) = <<>> =>
               Len(products) = Cardinality({i \in Indices(sheetData) :
                                               sheetData[i].factoryPrice > 0})

\* a product whose size holds more digits than the query, next to a priced
\* row of another size that was left out
C25_Witness ==
    /\ Merged /\ variant = "sheetFirst"
    /\ normalizeSize(filter.size) # <<>>
    /\ \E i \in candidateRows : normalizeSize(sheetData[i].size) # normalizeSize(filter.size)
    /\ \E i \in Indices(sheetData) \ candidateRows : sheetData[i].factoryPrice > 0
    /\ Len(products) = 1

\* C26: in the ledger-driven (sheet-first) merge a ledger row whose code is
\* empty or only whitespace is matched to no stock record: its product has
\* totalStock 0 and supplyPrice 0, whatever the stock records look like.
C26_EmptyCodeMatchesNothing ==
    (Merged /\ variant = "sheetFirst") =>
        \A j \in Indices(products) :
            trim(StringOrEmpty(products[j].partNo)) = <<>> =>
                products[j].totalStock = 0 /\ products[j].supplyPrice = 0

RECURSIVE sumTotalStock(_)
sumTotalStock(list) ==
    IF list = <<>> THEN 0 ELSE Head(list).totalStock + sumTotalStock(Tail(list))

\* C27: the stock shown never exceeds the stock fetched: the sum of
\* totalStock over the merged products is at most the sum over the
\* deduplicated stock records, also when ledger rows share a code.
C27_StockConserved ==
    Merged => sumTotalStock(products) <= sumTotalStock(productData)

----------------------------------------------------------------------------
(* Properties of overlapping searches *)

\* C28: when searches overlap, the list on display once all of them have
\* returned is the result of the search started last, and loading is false
\* only when no search is in flight. Stated on the steps in which a search
\* returns: if the search that returns last is not the one started last,
\* the list on display, published by the search started last, stays; and a
\* search that returns while another is in flight leaves loading true.
C28_LatestSearchWins ==
    [][IsSearchCompletion =>
          /\ (calls' = <<>> /\ ~calls[1].latest /\ products # <<>>) => products' = products
          /\ calls' # <<>> => loading']_vars

\* C29: with an empty size query (after trimming) and no search in flight,
\* the sheet-first list is empty and loading is false, also when the query
\* was cleared while a search was in flight.
C29_EmptyQueryEmptyList ==
    (variant = "sheetFirst" /\ trim(filter.size) = <<>> /\ calls = <<>>)
        => products = <<>> /\ ~loading

----------------------------------------------------------------------------
(* Properties of orders with any quantity *)

\* C30: whatever quantities placeOrder is called with, zero and negative
\* ones included, no inventory record's stockQty goes below 0 or above the
\* value it had before: every call leaves each stockQty between 0 and its
\* previous value.
C30_StockWithinBounds ==
    [][/\ Len(inventory') = Len(inventory)
       /\ \A r \in 1..Len(inventory) :
              /\ inventory'[r].stockQty >= 0
              /\ inventory'[r].stockQty <= inventory[r].stockQty]_vars

=============================================================================
